---------------------------- MODULE Spec2Model ----------------------------
(***************************************************************************)
(* Execution core of the Crossmint megaverse scripts: the concurrency      *)
(* Limiter, the backoff-retry executor withRetry, the plan builder and the *)
(* batch runner in main (phase 2: src/unnamed/part_000, phase 1:           *)
(* src/phase1/polyanets.ts).                                               *)
(*                                                                         *)
(* The code is asynchronous JavaScript.  It runs on one thread: a          *)
(* macrotask (the main script, a timer callback, an I/O completion) runs   *)
(* to its end, then the microtask queue (promise reactions: the            *)
(* continuations of await, then and catch handlers) is drained in FIFO     *)
(* order, then the next macrotask runs.  The model keeps that queue        *)
(* explicitly (microtasks); each action below is one synchronous segment   *)
(* of the code between two suspension points.                              *)
(***************************************************************************)
EXTENDS Integers, Sequences, FiniteSets, TLC

(***************************************************************************)
(* Bounds of the model.                                                    *)
(***************************************************************************)
\* run() invocations the Limiter harness makes
NumTasks == 3
\* largest Limiter.max the harness constructs
MaxMax == 2
\* largest opts.retries a direct withRetry call is given
MaxRetries == 3
\* most actions of a batch
MaxActions == 2
\* largest CONCURRENCY of a batch or a run
MaxConc == 2
\* most cells (rows x columns) of a goal map a run fetches
MaxCells == 4
\* most failed create requests in a whole run of main
MaxFaults == 1
\* most cells of a goal map over the whole token set that a dry run plans
MaxPlanCells == 2
\* largest opts.retries of two interleaved withRetry calls
MaxPairRetries == 2
\* most rows, and most columns, of a goal map over the tokens of PlanSample
MaxSide == 2
\* largest grid size a dry run of phase 1 is given in place of GRID_SIZE
MaxGrid == 3
\* largest box size a dry run of phase 1 is given in place of X_SIZE
MaxBox == 5

(***************************************************************************)
(* Program constants.                                                      *)
(***************************************************************************)
\* withRetry(a.run, { retries: 6, ... }) in main
BatchRetries == 6
\* withRetry(() => client.createPolyanet(p), { retries: 6, ... }) in main of
\* phase 1
Phase1Retries == 6
\* phase 1: 11x11 grid with indices 0..10
GRID_SIZE == 11
\* phase 1: 7x7 box for the X inside the grid
X_SIZE == 7
\* phase 1: center of the 11x11 grid
CENTER == [row |-> 5, column |-> 5]

VARIABLES
  \* ---- Limiter (part_000:161-170, polyanets.ts:124-141)
  max,          \* Limiter.max
  active,       \* Limiter.active
  queue,        \* Limiter.queue: the waiters' resolve callbacks, by run() id
  lpc,          \* position of each run() invocation
  \* ---- event loop
  microtasks,   \* the microtask queue, FIFO
  phase,        \* "sync": a macrotask's code is running; "drain": microtasks
  \* ---- the tasks the harness hands to run(), and observations
  tstate,       \* the promise task() returned: none, pending, fulfilled, rejected
  rresult,      \* the promise run() returned: none, pending, fulfilled, rejected
  callOrder,    \* ids in the order run() was invoked
  startOrder,   \* ids in the order task() was called
  \* ---- withRetry, one entry per invocation (part_000:141-157,
  \*      polyanets.ts:96-118)
  retries,      \* const retries = opts?.retries ?? ...
  copy,         \* which copy of withRetry runs: 1 = phase 1, 2 = phase 2
  attempt,      \* let attempt
  wpc,          \* position: idle, inflight, settling, sleeping, waking,
                \*   returned, thrown
  fnres,        \* how the promise of the pending fn() call settled
  calls,        \* number of fn() calls made
  fails,        \* number of fn() calls whose failure was caught
  lastErr,      \* err of the catch block that ran last
  onRetryLog,   \* attempt numbers passed to opts.onRetry, in order
  onRetryErr,   \* err passed to the last opts.onRetry call
  sleeps,       \* number of sleep(delay) calls
  wout,         \* the promise withRetry returned
  \* ---- main (part_000:220-256)
  mpc,          \* position of main
  candidateId,  \* process.env.CANDIDATE_ID || ''
  goalAttempt,  \* let attempt of withRetry(() => client.getGoal(), ...)
  goalCalls,    \* number of GET /map/{id}/goal requests sent
  goal,         \* the goal map the server serves
  concurrency,  \* parseInt(process.env.CONCURRENCY || '8', 10)
  dryRun,       \* DRY_RUN
  grid,         \* planActions(...).grid
  actions,      \* planActions(...).actions
  fatalErr,     \* message of the error main() rejected with
  ok,           \* let ok
  fail,         \* let fail
  result,       \* the counts of the final "Done." line
  \* ---- main (polyanets.ts:143-194)
  gridSize,     \* GRID_SIZE
  xSize,        \* X_SIZE
  center,       \* CENTER
  points        \* shape.points(grid)

limVars == <<max, active, queue, lpc, callOrder, startOrder>>
loopVars == <<microtasks, phase>>
harnessVars == <<tstate, rresult>>
retryVars == <<retries, copy, attempt, wpc, fnres, calls, fails, lastErr,
               onRetryLog, onRetryErr, sleeps, wout>>
shapeVars == <<gridSize, xSize, center, points>>
fetchVars == <<goalAttempt, goalCalls>>
mainVars == <<mpc, shapeVars, candidateId, fetchVars, goal, concurrency,
              dryRun, grid, actions, fatalErr, ok, fail, result>>
\* what the Limiter harness leaves alone, and what a direct withRetry call does
outsideHarness == <<retryVars, mainVars>>
outsideRetry == <<limVars, harnessVars, phase, mainVars>>

Tasks == 1..NumTasks

Job(k, i) == [kind |-> k, id |-> i]

\* position of x in sequence s (0 when absent)
Pos(s, x) == IF \E k \in 1..Len(s) : s[k] = x
               THEN CHOOSE k \in 1..Len(s) : s[k] = x
               ELSE 0

(***************************************************************************)
(* Limiter                                                                 *)
(***************************************************************************)
\* constructor: throws unless max >= 1
LimiterAccepts(m) == ~(m < 1)

\* (mutant) run() without the admission test: every caller takes a slot
RunCallNoGate(i) ==
  /\ callOrder' = Append(callOrder, i)
  /\ active' = active + 1
  /\ lpc' = [lpc EXCEPT ![i] = "running"]
  /\ startOrder' = Append(startOrder, i)
  /\ UNCHANGED <<max, queue>>

\* run(), from its invocation to its first suspension point:
\*   if (this.active >= this.max) await new Promise(res => this.queue.push(res));
\*   this.active++; ... task()
\* Either the caller is parked in the queue, or the slot is taken and the
\* task is called, all in the caller's synchronous segment.
RunCall(i) ==
  /\ callOrder' = Append(callOrder, i)
  /\ IF active >= max
       THEN /\ queue' = Append(queue, i)
            /\ lpc' = [lpc EXCEPT ![i] = "queued"]
            /\ UNCHANGED <<active, startOrder>>
       ELSE /\ active' = active + 1
            /\ lpc' = [lpc EXCEPT ![i] = "running"]
            /\ startOrder' = Append(startOrder, i)
            /\ UNCHANGED queue
  /\ UNCHANGED max

\* run(), resumed after the admission await (its waiter was resolved):
\*   this.active++; ... task()
\* The condition active >= max is not evaluated again.
RunResume(i) ==
  /\ active' = active + 1
  /\ lpc' = [lpc EXCEPT ![i] = "running"]
  /\ startOrder' = Append(startOrder, i)
  /\ UNCHANGED <<max, queue, callOrder>>

\* (mutant) the finally block without next(): the head waiter is dropped
WakeNobody(rest) == rest

\* what the finally block leaves in the microtask queue: next() resolves the
\* head waiter's promise, which queues that waiter's continuation
WakeNext(rest) ==
  IF queue # <<>> THEN Append(rest, Job("resume", Head(queue))) ELSE rest

\* (mutant) the cleanup written after the await instead of in a finally block:
\* a rejected task skips it
RunFinallyOnSuccessOnly(i, rest) ==
  /\ active' = IF tstate[i] = "rejected" THEN active ELSE active - 1
  /\ queue' = IF queue # <<>> /\ tstate[i] # "rejected" THEN Tail(queue) ELSE queue
  /\ microtasks' = IF tstate[i] = "rejected" THEN rest ELSE WakeNext(rest)
  /\ lpc' = [lpc EXCEPT ![i] = "returned"]
  /\ UNCHANGED <<max, callOrder, startOrder>>

\* run(), resumed after await task() settled, whatever the outcome:
\*   finally { this.active--; const next = this.queue.shift(); if (next) next(); }
\* rest is the microtask queue behind the job being run.
RunFinally(i, rest) ==
  /\ active' = active - 1
  /\ queue' = IF queue # <<>> THEN Tail(queue) ELSE queue
  /\ microtasks' = WakeNext(rest)
  /\ lpc' = [lpc EXCEPT ![i] = "returned"]
  /\ UNCHANGED <<max, callOrder, startOrder>>

(***************************************************************************)
(* withRetry                                                               *)
(***************************************************************************)
\* Failure objects are records of their properties.  An error of the client
\* carries status (post/del: err.status = res.status); a network-level
\* failure (fetch rejecting) carries none.  seq tells the objects apart: it
\* is the number of the fn() call that threw it.
HasStatus(e) == "status" \in DOMAIN e

NoError == [seq |-> 0]

\* statuses the operation of a direct withRetry call fails with
Statuses == {0, 400, 404, 429, 499, 500, 503}

\* how a call of fn() can end
Outcomes == {[ok |-> TRUE], [ok |-> FALSE]}
              \cup {[ok |-> FALSE, status |-> st] : st \in Statuses}

\* the object fn() call number n throws for outcome o
ErrorOf(o, n) == IF HasStatus(o) THEN [status |-> o.status, seq |-> n]
                                 ELSE [seq |-> n]

\* the settled promise of fn() call number n
Settled(o, n) == IF o.ok THEN [ok |-> TRUE, value |-> n]
                         ELSE [ok |-> FALSE, error |-> ErrorOf(o, n)]

\* phase 1 (polyanets.ts:110):
\*   status === 429 || (status && status >= 500) || status === undefined
\* status is a number or undefined; a number is truthy unless it is 0.
Transient1(e) ==
  \/ (HasStatus(e) /\ e.status = 429)
  \/ (HasStatus(e) /\ e.status # 0 /\ e.status >= 500)
  \/ ~HasStatus(e)

\* (mutant) the comparison reaches down to 429: every status from 429 up retries
Transient2From429(e) ==
  \/ (HasStatus(e) /\ e.status >= 429)
  \/ ~HasStatus(e)

\* phase 2 (part_000:149):
\*   status === 429 || (status != null && status >= 500) || status === undefined
Transient2(e) ==
  \/ (HasStatus(e) /\ e.status = 429)
  \/ (HasStatus(e) /\ e.status >= 500)
  \/ ~HasStatus(e)

Transient(c, e) == IF copy[c] = 1 THEN Transient1(e) ELSE Transient2(e)

\* (mutant) one retry too many: attempt > retries
GiveUpLate(c, e) == attempt[c] > retries[c] \/ ~Transient(c, e)

\* (mutant) one retry too few: attempt + 1 >= retries
GiveUpEarly(c, e) == attempt[c] + 1 >= retries[c] \/ ~Transient(c, e)

\* if (attempt >= retries || !transient) throw err;
GiveUp(c, e) == attempt[c] >= retries[c] \/ ~Transient(c, e)

\* (mutant) a give-up on a transient failure marks the error it throws
RethrowTagged(c, e) ==
  IF Transient(c, e)
    THEN [f \in DOMAIN e \cup {"exhausted"} |-> IF f = "exhausted" THEN TRUE ELSE e[f]]
    ELSE e

\* throw err: the caught object itself
Rethrow(c, e) == e

NoRetryCalls ==
  /\ retries = <<>> /\ copy = <<>> /\ attempt = <<>> /\ wpc = <<>>
  /\ fnres = <<>> /\ calls = <<>> /\ fails = <<>> /\ lastErr = <<>>
  /\ onRetryLog = <<>> /\ onRetryErr = <<>> /\ sleeps = <<>> /\ wout = <<>>

\* n withRetry invocations not yet made, with the given retries and copies
RetryCallsInit(n, rs, cs) ==
  /\ retries = rs /\ copy = cs
  /\ attempt = [c \in 1..n |-> 0]
  /\ wpc = [c \in 1..n |-> "idle"]
  /\ fnres = [c \in 1..n |-> [ok |-> TRUE, value |-> 0]]
  /\ calls = [c \in 1..n |-> 0]
  /\ fails = [c \in 1..n |-> 0]
  /\ lastErr = [c \in 1..n |-> NoError]
  /\ onRetryLog = [c \in 1..n |-> <<>>]
  /\ onRetryErr = [c \in 1..n |-> NoError]
  /\ sleeps = [c \in 1..n |-> 0]
  /\ wout = [c \in 1..n |-> [state |-> "pending"]]

\* withRetry(fn, opts) is called: let attempt = 0; while (true) try { await fn() }
\* runs fn() in the caller's segment and suspends on its promise.
WRCall(c) ==
  /\ attempt' = [attempt EXCEPT ![c] = 0]
  /\ calls' = [calls EXCEPT ![c] = 1]
  /\ wpc' = [wpc EXCEPT ![c] = "inflight"]
  /\ UNCHANGED <<retries, copy, fnres, fails, lastErr, onRetryLog, onRetryErr,
                 sleeps, wout>>

\* the promise of the pending fn() call settles (the remote call responds, or
\* fails): the continuation of await fn() is queued
WRRespond(c, o) ==
  /\ microtasks = <<>>
  /\ wpc[c] = "inflight"
  /\ fnres' = [fnres EXCEPT ![c] = Settled(o, calls[c])]
  /\ wpc' = [wpc EXCEPT ![c] = "settling"]
  /\ microtasks' = <<Job("fnSettled", c)>>
  /\ UNCHANGED <<retries, copy, attempt, calls, fails, lastErr, onRetryLog,
                 onRetryErr, sleeps, wout>>

\* (mutant) the catch block calls opts.onRetry before the give-up test, so
\* also for the failure it throws
WRSettledHookFirst(c, rest, onSettle) ==
  LET r == fnres[c] IN
  IF r.ok
    THEN /\ wout' = [wout EXCEPT ![c] = [state |-> "fulfilled", value |-> r.value]]
         /\ wpc' = [wpc EXCEPT ![c] = "returned"]
         /\ microtasks' = rest \o onSettle
         /\ UNCHANGED <<retries, copy, attempt, fnres, calls, fails, lastErr,
                        onRetryLog, onRetryErr, sleeps>>
    ELSE /\ fails' = [fails EXCEPT ![c] = @ + 1]
         /\ lastErr' = [lastErr EXCEPT ![c] = r.error]
         /\ onRetryLog' = [onRetryLog EXCEPT ![c] = Append(@, attempt[c] + 1)]
         /\ onRetryErr' = [onRetryErr EXCEPT ![c] = r.error]
         /\ IF GiveUp(c, r.error)
              THEN /\ wout' = [wout EXCEPT ![c] =
                                 [state |-> "rejected", error |-> Rethrow(c, r.error)]]
                   /\ wpc' = [wpc EXCEPT ![c] = "thrown"]
                   /\ microtasks' = rest \o onSettle
                   /\ UNCHANGED sleeps
              ELSE /\ sleeps' = [sleeps EXCEPT ![c] = @ + 1]
                   /\ wpc' = [wpc EXCEPT ![c] = "sleeping"]
                   /\ microtasks' = rest
                   /\ UNCHANGED wout
         /\ UNCHANGED <<retries, copy, attempt, fnres, calls>>

\* continuation of await fn().  Fulfilled: return the value.  Rejected: the
\* catch block:
\*   const status = err?.status; const transient = ...;
\*   if (attempt >= retries || !transient) throw err;
\*   const delay = Math.round(Math.random() * baseMs * 2 ** attempt);
\*   opts?.onRetry?.(err, attempt + 1); await sleep(delay);
\* The delay only sets when the timer fires; WRTimer lets it fire in any later
\* macrotask.  rest is the microtask queue behind this job; onSettle are the
\* reactions registered on the promise withRetry returned.
WRSettled(c, rest, onSettle) ==
  LET r == fnres[c] IN
  IF r.ok
    THEN /\ wout' = [wout EXCEPT ![c] = [state |-> "fulfilled", value |-> r.value]]
         /\ wpc' = [wpc EXCEPT ![c] = "returned"]
         /\ microtasks' = rest \o onSettle
         /\ UNCHANGED <<retries, copy, attempt, fnres, calls, fails, lastErr,
                        onRetryLog, onRetryErr, sleeps>>
    ELSE /\ fails' = [fails EXCEPT ![c] = @ + 1]
         /\ lastErr' = [lastErr EXCEPT ![c] = r.error]
         /\ IF GiveUp(c, r.error)
              THEN /\ wout' = [wout EXCEPT ![c] =
                                 [state |-> "rejected", error |-> Rethrow(c, r.error)]]
                   /\ wpc' = [wpc EXCEPT ![c] = "thrown"]
                   /\ microtasks' = rest \o onSettle
                   /\ UNCHANGED <<onRetryLog, onRetryErr, sleeps>>
              ELSE /\ onRetryLog' = [onRetryLog EXCEPT ![c] = Append(@, attempt[c] + 1)]
                   /\ onRetryErr' = [onRetryErr EXCEPT ![c] = r.error]
                   /\ sleeps' = [sleeps EXCEPT ![c] = @ + 1]
                   /\ wpc' = [wpc EXCEPT ![c] = "sleeping"]
                   /\ microtasks' = rest
                   /\ UNCHANGED wout
         /\ UNCHANGED <<retries, copy, attempt, fnres, calls>>

\* setTimeout fires: sleep's promise resolves, the continuation is queued
WRTimer(c) ==
  /\ microtasks = <<>>
  /\ wpc[c] = "sleeping"
  /\ wpc' = [wpc EXCEPT ![c] = "waking"]
  /\ microtasks' = <<Job("wake", c)>>
  /\ UNCHANGED <<retries, copy, attempt, fnres, calls, fails, lastErr,
                 onRetryLog, onRetryErr, sleeps, wout>>

\* (mutant) the loop without attempt++
WRWakeNoIncrement(c) ==
  /\ calls' = [calls EXCEPT ![c] = @ + 1]
  /\ wpc' = [wpc EXCEPT ![c] = "inflight"]
  /\ UNCHANGED <<retries, copy, attempt, fnres, fails, lastErr, onRetryLog,
                 onRetryErr, sleeps, wout>>

\* (mutant) attempt declared outside withRetry: one counter for all calls
WRWakeSharedAttempt(c) ==
  /\ attempt' = [d \in DOMAIN attempt |-> attempt[d] + 1]
  /\ calls' = [calls EXCEPT ![c] = @ + 1]
  /\ wpc' = [wpc EXCEPT ![c] = "inflight"]
  /\ UNCHANGED <<retries, copy, fnres, fails, lastErr, onRetryLog, onRetryErr,
                 sleeps, wout>>

\* continuation of await sleep(delay): attempt++; and the loop calls fn() again
WRWake(c) ==
  /\ attempt' = [attempt EXCEPT ![c] = @ + 1]
  /\ calls' = [calls EXCEPT ![c] = @ + 1]
  /\ wpc' = [wpc EXCEPT ![c] = "inflight"]
  /\ UNCHANGED <<retries, copy, fnres, fails, lastErr, onRetryLog, onRetryErr,
                 sleeps, wout>>

\* the phase 1 script has computed nothing
NoShape ==
  /\ gridSize = 0 /\ xSize = 0 /\ center = [row |-> 0, column |-> 0]
  /\ points = <<>>

\* main is not running
NoMain ==
  /\ NoShape
  /\ mpc = "none" /\ candidateId = "" /\ goal = <<>> /\ concurrency = 0
  /\ goalAttempt = 0 /\ goalCalls = 0
  /\ dryRun = FALSE
  /\ grid = [height |-> 0, width |-> 0] /\ actions = <<>> /\ fatalErr = ""
  /\ ok = 0 /\ fail = 0 /\ result = [succeeded |-> 0, failed |-> 0]

(***************************************************************************)
(* One direct call of withRetry, of either copy, with any retries in       *)
(* 0..MaxRetries, on an operation that may end in any way on each call.    *)
(***************************************************************************)
NoLimiter ==
  /\ max = 0 /\ active = 0 /\ queue = <<>> /\ lpc = <<>>
  /\ callOrder = <<>> /\ startOrder = <<>>
  /\ tstate = <<>> /\ rresult = <<>>

\* opts.retries of a direct call: every value up to MaxRetries, and the
\* value main passes
RetryBudgets == 0..MaxRetries \cup {BatchRetries}

InitRetry ==
  /\ \E r \in RetryBudgets, cp \in {1, 2} : RetryCallsInit(1, <<r>>, <<cp>>)
  /\ microtasks = <<>>
  /\ phase = "drain"
  /\ NoLimiter
  /\ NoMain

DirectCall(c) ==
  /\ wpc[c] = "idle"
  /\ microtasks = <<>>
  /\ WRCall(c)
  /\ UNCHANGED microtasks
  /\ UNCHANGED outsideRetry

Respond(c, o) == WRRespond(c, o) /\ UNCHANGED outsideRetry

MicroFnSettled(c) ==
  /\ microtasks # <<>> /\ Head(microtasks) = Job("fnSettled", c)
  /\ WRSettled(c, Tail(microtasks), <<>>)
  /\ UNCHANGED outsideRetry

TimerFire(c) == WRTimer(c) /\ UNCHANGED outsideRetry

MicroWake(c) ==
  /\ microtasks # <<>> /\ Head(microtasks) = Job("wake", c)
  /\ WRWake(c)
  /\ microtasks' = Tail(microtasks)
  /\ UNCHANGED outsideRetry

NextRetry ==
  \/ \E c \in DOMAIN wpc : DirectCall(c)
  \/ \E c \in DOMAIN wpc, o \in Outcomes : Respond(c, o)
  \/ \E c \in DOMAIN wpc : MicroFnSettled(c)
  \/ \E c \in DOMAIN wpc : TimerFire(c)
  \/ \E c \in DOMAIN wpc : MicroWake(c)

(***************************************************************************)
(* Two direct calls of withRetry, of either copy, each with its own        *)
(* retries, started and answered in any order.                             *)
(***************************************************************************)
InitRetryPair ==
  /\ \E r1, r2 \in 0..MaxPairRetries, cp1, cp2 \in {1, 2} :
       RetryCallsInit(2, <<r1, r2>>, <<cp1, cp2>>)
  /\ microtasks = <<>>
  /\ phase = "drain"
  /\ NoLimiter
  /\ NoMain

NextRetryPair ==
  \/ \E c \in DOMAIN wpc : DirectCall(c)
  \/ \E c \in DOMAIN wpc, o \in {[ok |-> TRUE], [ok |-> FALSE],
                                  [ok |-> FALSE, status |-> 404],
                                  [ok |-> FALSE, status |-> 503]} : Respond(c, o)
  \/ \E c \in DOMAIN wpc : MicroFnSettled(c)
  \/ \E c \in DOMAIN wpc : TimerFire(c)
  \/ \E c \in DOMAIN wpc : MicroWake(c)

(***************************************************************************)
(* Limiter harness: callers invoke run() at any time, from a macrotask or  *)
(* from a promise reaction; tasks are opaque promises the environment      *)
(* settles, with success or failure.                                       *)
(***************************************************************************)
InitLimiter ==
  /\ max \in {m \in 1..MaxMax : LimiterAccepts(m)}
  /\ active = 0
  /\ queue = <<>>
  /\ lpc = [i \in Tasks |-> "idle"]
  /\ microtasks = <<>>
  /\ phase = "sync"
  /\ tstate = [i \in Tasks |-> "none"]
  /\ rresult = [i \in Tasks |-> "none"]
  /\ callOrder = <<>>
  /\ startOrder = <<>>
  /\ NoRetryCalls
  /\ NoMain

\* task() has just been called iff the invocation moved to "running"
TaskCalled(i) == lpc[i] # "running" /\ lpc'[i] = "running"

HarnessStart(i) ==
  /\ tstate' = IF TaskCalled(i) THEN [tstate EXCEPT ![i] = "pending"] ELSE tstate
  /\ rresult' = [rresult EXCEPT ![i] = "pending"]

\* limiter.run(task_i) called from the running macrotask
Invoke(i) ==
  /\ phase = "sync"
  /\ lpc[i] = "idle"
  /\ RunCall(i)
  /\ HarnessStart(i)
  /\ UNCHANGED loopVars
  /\ UNCHANGED outsideHarness

\* somePromise.then(() => limiter.run(task_i)) on a settled promise: the call
\* is queued as a promise reaction
Defer(i) ==
  /\ phase = "sync"
  /\ lpc[i] = "idle"
  /\ lpc' = [lpc EXCEPT ![i] = "deferred"]
  /\ microtasks' = Append(microtasks, Job("call", i))
  /\ UNCHANGED <<max, active, queue, callOrder, startOrder, phase, harnessVars>>
  /\ UNCHANGED outsideHarness

\* the environment settles the promise of a running task; run() is suspended
\* in await task(), so its continuation is queued
Settle(i, outcome) ==
  /\ phase = "sync"
  /\ tstate[i] = "pending"
  /\ tstate' = [tstate EXCEPT ![i] = outcome]
  /\ microtasks' = Append(microtasks, Job("settled", i))
  /\ UNCHANGED <<limVars, phase, rresult>>
  /\ UNCHANGED outsideHarness

\* the macrotask's code ends: the microtask queue is drained
EndSync ==
  /\ phase = "sync"
  /\ phase' = "drain"
  /\ UNCHANGED <<limVars, microtasks, harnessVars>>
  /\ UNCHANGED outsideHarness

\* the queue is drained: the next macrotask starts
NextMacrotask ==
  /\ phase = "drain"
  /\ microtasks = <<>>
  /\ \E i \in Tasks : lpc[i] \in {"idle", "running"} /\ tstate[i] \in {"none", "pending"}
  /\ phase' = "sync"
  /\ UNCHANGED <<limVars, microtasks, harnessVars>>
  /\ UNCHANGED outsideHarness

\* microtask: the deferred call of run()
MicroCall(i) ==
  /\ phase = "drain"
  /\ microtasks # <<>> /\ Head(microtasks) = Job("call", i)
  /\ RunCall(i)
  /\ HarnessStart(i)
  /\ microtasks' = Tail(microtasks)
  /\ UNCHANGED phase
  /\ UNCHANGED outsideHarness

\* microtask: a woken waiter continues
MicroResume(i) ==
  /\ phase = "drain"
  /\ microtasks # <<>> /\ Head(microtasks) = Job("resume", i)
  /\ RunResume(i)
  /\ tstate' = [tstate EXCEPT ![i] = "pending"]
  /\ microtasks' = Tail(microtasks)
  /\ UNCHANGED <<phase, rresult>>
  /\ UNCHANGED outsideHarness

\* microtask: run() continues after await task(): the finally block, then
\* run()'s own promise takes the task's outcome (return await / rethrow)
MicroFinally(i) ==
  /\ phase = "drain"
  /\ microtasks # <<>> /\ Head(microtasks) = Job("settled", i)
  /\ RunFinally(i, Tail(microtasks))
  /\ rresult' = [rresult EXCEPT ![i] = tstate[i]]
  /\ UNCHANGED <<phase, tstate>>
  /\ UNCHANGED outsideHarness

NextLimiter ==
  \/ \E i \in Tasks : Invoke(i)
  \/ \E i \in Tasks : Defer(i)
  \/ \E i \in Tasks, o \in {"fulfilled", "rejected"} : Settle(i, o)
  \/ EndSync
  \/ NextMacrotask
  \/ \E i \in Tasks : MicroCall(i)
  \/ \E i \in Tasks : MicroResume(i)
  \/ \E i \in Tasks : MicroFinally(i)

(***************************************************************************)
(* Grid, parseToken, planActions (phase 2)                                 *)
(***************************************************************************)
\* Grid constructor: throws unless both dimensions are positive (they are
\* array lengths here, so always integers)
GridAccepts(h, w) == ~(h <= 0 \/ w <= 0)

\* (mutant) the upper limits are one too low
InBoundsShort(g, pt) ==
  pt.row >= 0 /\ pt.row < g.height - 1 /\ pt.column >= 0 /\ pt.column < g.width - 1

InBounds(g, pt) ==
  pt.row >= 0 /\ pt.row < g.height /\ pt.column >= 0 /\ pt.column < g.width

\* the alternatives of /^(BLUE|RED|PURPLE|WHITE)_SOLOON$/
ColorWords == {"BLUE", "RED", "PURPLE", "WHITE"}

\* the alternatives of /^(UP|DOWN|LEFT|RIGHT)_COMETH$/
DirWords == {"UP", "DOWN", "LEFT", "RIGHT"}

\* (mutant) the captured colour is kept as it is written
KeepCase(w) == w

\* String.prototype.toLowerCase on the words the patterns capture
ToLowerCase(w) ==
  CASE w = "BLUE" -> "blue" [] w = "RED" -> "red" [] w = "PURPLE" -> "purple"
    [] w = "WHITE" -> "white" [] w = "GREEN" -> "green"
    [] OTHER -> w

\* dirMap
DirMap(w) ==
  CASE w = "UP" -> "up" [] w = "DOWN" -> "down" [] w = "LEFT" -> "left"
    [] w = "RIGHT" -> "right"

\* String.prototype.toUpperCase on the colours and directions of a Cell
ToUpperCase(w) ==
  CASE w = "blue" -> "BLUE" [] w = "red" -> "RED" [] w = "purple" -> "PURPLE"
    [] w = "white" -> "WHITE" [] w = "green" -> "GREEN"
    [] w = "up" -> "UP" [] w = "down" -> "DOWN" [] w = "left" -> "LEFT"
    [] w = "right" -> "RIGHT"
    [] OTHER -> w

\* (mutant) the colour list of the pattern also holds GREEN
ParseTokenGreen(token) ==
  IF token = "SPACE" THEN [ok |-> TRUE, cell |-> [kind |-> "SPACE"]]
  ELSE IF token = "POLYANET" THEN [ok |-> TRUE, cell |-> [kind |-> "POLYANET"]]
  ELSE IF \E w \in ColorWords \cup {"GREEN"} : token = w \o "_SOLOON"
    THEN LET w == CHOOSE w \in ColorWords \cup {"GREEN"} : token = w \o "_SOLOON"
         IN [ok |-> TRUE, cell |-> [kind |-> "SOLOON", color |-> ToLowerCase(w)]]
  ELSE IF \E w \in DirWords : token = w \o "_COMETH"
    THEN LET w == CHOOSE w \in DirWords : token = w \o "_COMETH"
         IN [ok |-> TRUE, cell |-> [kind |-> "COMETH", direction |-> DirMap(w)]]
  ELSE [ok |-> FALSE, error |-> "Unknown token: " \o token]

\* parseToken: the Cell, or the error thrown
ParseToken(token) ==
  IF token = "SPACE" THEN [ok |-> TRUE, cell |-> [kind |-> "SPACE"]]
  ELSE IF token = "POLYANET" THEN [ok |-> TRUE, cell |-> [kind |-> "POLYANET"]]
  ELSE IF \E w \in ColorWords : token = w \o "_SOLOON"
    THEN LET w == CHOOSE w \in ColorWords : token = w \o "_SOLOON"
         IN [ok |-> TRUE, cell |-> [kind |-> "SOLOON", color |-> ToLowerCase(w)]]
  ELSE IF \E w \in DirWords : token = w \o "_COMETH"
    THEN LET w == CHOOSE w \in DirWords : token = w \o "_COMETH"
         IN [ok |-> TRUE, cell |-> [kind |-> "COMETH", direction |-> DirMap(w)]]
  ELSE [ok |-> FALSE, error |-> "Unknown token: " \o token]

\* ` @ (${r},${c})`
At(r, c) == " @ (" \o ToString(r) \o "," \o ToString(c) \o ")"

\* the Action pushed for a cell at (r, c); run is kept as the client call it
\* makes and its arguments
ActionFor(cell, r, c) ==
  LET pt == [row |-> r, column |-> c] IN
  CASE cell.kind = "POLYANET" ->
         [kind |-> "create", call |-> "createPolyanet", point |-> pt,
          describe |-> "POLYANET" \o At(r, c)]
    [] cell.kind = "SOLOON" ->
         [kind |-> "create", call |-> "createSoloon", point |-> pt,
          color |-> cell.color,
          describe |-> ToUpperCase(cell.color) \o "_SOLOON" \o At(r, c)]
    [] cell.kind = "COMETH" ->
         [kind |-> "create", call |-> "createCometh", point |-> pt,
          direction |-> cell.direction,
          describe |-> ToUpperCase(cell.direction) \o "_COMETH" \o At(r, c)]

\* the two nested loops of planActions from cell number k on (row-major:
\* r = k div width, c = k mod width), acc being the actions pushed so far
RECURSIVE PlanLoop(_, _, _, _)
PlanLoop(g, gr, k, acc) ==
  IF k >= gr.height * gr.width
    THEN [threw |-> FALSE, grid |-> gr, actions |-> acc]
    ELSE LET r == k \div gr.width
             c == k % gr.width
             parsed == ParseToken(g[r + 1][c + 1])
         IN IF ~parsed.ok
              THEN [threw |-> TRUE, error |-> parsed.error]
              ELSE IF ~InBounds(gr, [row |-> r, column |-> c])
                     \/ parsed.cell.kind = "SPACE"
                THEN PlanLoop(g, gr, k + 1, acc)
                ELSE PlanLoop(g, gr, k + 1,
                              Append(acc, ActionFor(parsed.cell, r, c)))

\* planActions(goal, client): { grid, actions }, or the error thrown
PlanActions(g) ==
  LET height == Len(g)
      width == IF height > 0 THEN Len(g[1]) ELSE 0
  IN IF ~GridAccepts(height, width)
       THEN [threw |-> TRUE, error |-> "Grid dimensions must be positive integers"]
       ELSE PlanLoop(g, [height |-> height, width |-> width], 0, <<>>)

(***************************************************************************)
(* main (phase 2) and its batch                                            *)
(***************************************************************************)
\* responses of the remote-creation calls of a batch: success, a fatal
\* status, a transient status
BatchOutcomes == {[ok |-> TRUE], [ok |-> FALSE, status |-> 404],
                  [ok |-> FALSE, status |-> 503]}

\* number of remote-creation requests sent so far
RECURSIVE SumSeq(_)
SumSeq(q) == IF q = <<>> THEN 0 ELSE Head(q) + SumSeq(Tail(q))
Issued == SumSeq(calls)

\* (mutant) Promise.race in place of Promise.all
JoinSettledAny == rresult # <<>> /\ \E i \in DOMAIN rresult : rresult[i] # "pending"

\* Promise.all(promises) has settled: all fulfilled, or one rejected
JoinSettled ==
  \/ \A i \in DOMAIN rresult : rresult[i] = "fulfilled"
  \/ \E i \in DOMAIN rresult : rresult[i] = "rejected"

\* (mutant) no catch handler on the chain: the rejection passes through
AfterCatchNone(st) == st

\* .catch((err) => { fail++; console.error(...) }): the state of the promise
\* it returns, given the state st of the promise it is called on
AfterCatch(st) == "fulfilled"

\* const limiter = new Limiter(concurrency); let ok = 0; let fail = 0;
\* with the per-action state of the n invocations to come
BatchFresh(n) ==
  /\ max' = concurrency /\ active' = 0 /\ queue' = <<>>
  /\ lpc' = [i \in 1..n |-> "idle"]
  /\ callOrder' = <<>> /\ startOrder' = <<>>
  /\ tstate' = [i \in 1..n |-> "none"]
  /\ rresult' = [i \in 1..n |-> "none"]
  /\ retries' = [i \in 1..n |-> BatchRetries]
  /\ copy' = [i \in 1..n |-> 2]
  /\ attempt' = [i \in 1..n |-> 0]
  /\ wpc' = [i \in 1..n |-> "idle"]
  /\ fnres' = [i \in 1..n |-> [ok |-> TRUE, value |-> 0]]
  /\ calls' = [i \in 1..n |-> 0]
  /\ fails' = [i \in 1..n |-> 0]
  /\ lastErr' = [i \in 1..n |-> NoError]
  /\ onRetryLog' = [i \in 1..n |-> <<>>]
  /\ onRetryErr' = [i \in 1..n |-> NoError]
  /\ sleeps' = [i \in 1..n |-> 0]
  /\ wout' = [i \in 1..n |-> [state |-> "pending"]]
  /\ ok' = 0 /\ fail' = 0

\* tokens of the goal maps a run fetches
MainTokens == {"SPACE", "POLYANET", "GREEN_SOLOON"}

\* goal maps: rectangular, of at most MaxCells cells; also no row at all, and
\* rows without cells
Goals ==
  {<<>>} \cup
  UNION {UNION {[1..h -> [1..w -> MainTokens]] :
                  w \in {x \in 0..MaxCells : h * x <= MaxCells}} :
           h \in 1..MaxCells}

\* goal maps of a batch of n actions
BatchGoals ==
  {<<<<"SPACE">>>>} \cup {<<[k \in 1..n |-> "POLYANET"]>> : n \in 1..MaxActions}

MainBlank ==
  /\ grid = [height |-> 0, width |-> 0] /\ actions = <<>> /\ fatalErr = ""
  /\ ok = 0 /\ fail = 0 /\ result = [succeeded |-> 0, failed |-> 0]
  /\ microtasks = <<>> /\ phase = "drain"
  /\ NoLimiter /\ NoRetryCalls

\* the values of CANDIDATE_ID: unset or empty, and set
CandidateIds == {"", "candidate"}

\* main is called
InitMain ==
  /\ NoShape
  /\ mpc = "start"
  /\ candidateId \in CandidateIds
  /\ goalAttempt = 0 /\ goalCalls = 0
  /\ goal \in Goals
  /\ concurrency \in 0..MaxConc
  /\ dryRun \in BOOLEAN
  /\ MainBlank

\* main has the goal map of a batch and runs it with a concurrency >= 1
InitBatch ==
  /\ NoShape
  /\ mpc = "fetched"
  /\ candidateId \in CandidateIds \ {""}
  /\ goalAttempt = 0 /\ goalCalls = 1
  /\ goal \in BatchGoals
  /\ concurrency \in 1..MaxConc
  /\ dryRun = FALSE
  /\ MainBlank

\* new CrossmintClient(candidateId): if (!candidateId) throw ...
ClientAccepts(id) == id # ""

\* withRetry(() => client.getGoal(), { retries: 4, ... })
GoalRetries == 4

\* main up to its first await: new CrossmintClient throws and main rejects
\* before anything is fetched; otherwise main reads CONCURRENCY and DRY_RUN
\* and calls withRetry, which sets attempt = 0 and calls getGoal, which sends
\* the first GET
MainClient ==
  /\ mpc = "start"
  /\ IF ClientAccepts(candidateId)
       THEN /\ mpc' = "fetching"
            /\ goalAttempt' = 0 /\ goalCalls' = goalCalls + 1
            /\ UNCHANGED fatalErr
       ELSE /\ mpc' = "fatal" /\ fatalErr' = "CANDIDATE_ID env var is required"
            /\ UNCHANGED fetchVars
  /\ UNCHANGED <<shapeVars, candidateId, goal, concurrency, dryRun, grid,
                 actions, ok, fail, result>>
  /\ UNCHANGED <<limVars, loopVars, harnessVars, retryVars>>

\* the answers of the server to GET /map/{id}/goal that are not ok, as
\* res.status and res.statusText
GoalStatuses == {404, 500, 503}
GoalStatusTexts == {"S", "Not Found", "Service Unavailable"}

\* the message of the error fetch itself rejects with
NetworkErrors == {"fetch failed"}

\* the message of the error res.json() rejects with, on a body that is not
\* JSON
JsonErrors == {"Unexpected token '<', \"<html>\" is not valid JSON"}

\* getGoal: throw new Error(`GET /map/{id}/goal failed: ${res.status}
\* ${res.statusText}`)
GoalFailed(status, statusText) ==
  "GET /map/{id}/goal failed: " \o ToString(status) \o " " \o statusText

\* the errors getGoal can throw: a failure of fetch, a response that is not
\* ok, a body res.json() rejects, a payload of which goal is not an array
GoalErrors ==
  NetworkErrors
    \cup {GoalFailed(st, tx) : st \in GoalStatuses, tx \in GoalStatusTexts}
    \cup JsonErrors
    \cup {"Goal payload malformed: missing goal[]"}

\* the catch block of withRetry on an error of getGoal: none of them has a
\* status property, so status === undefined and each is transient
GoalGiveUp(a) == a >= GoalRetries \/ ~Transient2([ok |-> FALSE])

\* the promise of getGoal settles. With the goal map withRetry returns it
\* and main goes on; with an error withRetry throws it when the retries are
\* used up, and main rejects with it, or else calls onRetry and sleeps
MainFetchGoal ==
  /\ mpc = "fetching"
  /\ \/ mpc' = "fetched" /\ UNCHANGED fatalErr
     \/ \E e \in GoalErrors :
          IF GoalGiveUp(goalAttempt)
            THEN mpc' = "fatal" /\ fatalErr' = e
            ELSE mpc' = "goalsleep" /\ UNCHANGED fatalErr
  /\ UNCHANGED <<shapeVars, candidateId, fetchVars, goal, concurrency, dryRun,
                 grid, actions, ok, fail, result>>
  /\ UNCHANGED <<limVars, loopVars, harnessVars, retryVars>>

\* the timer of sleep(delay) fires: attempt++, and the loop calls getGoal
\* again, which sends the next GET
MainFetchRetry ==
  /\ mpc = "goalsleep"
  /\ mpc' = "fetching"
  /\ goalAttempt' = goalAttempt + 1
  /\ goalCalls' = goalCalls + 1
  /\ UNCHANGED <<shapeVars, candidateId, goal, concurrency, dryRun, grid,
                 actions, fatalErr, ok, fail, result>>
  /\ UNCHANGED <<limVars, loopVars, harnessVars, retryVars>>

\* const { grid, actions } = planActions(goal, client); and the listing
MainPlan ==
  /\ mpc = "fetched"
  /\ LET pl == PlanActions(goal) IN
     IF pl.threw
       THEN /\ mpc' = "fatal" /\ fatalErr' = pl.error
            /\ UNCHANGED <<grid, actions>>
       ELSE /\ mpc' = "planned"
            /\ grid' = pl.grid /\ actions' = pl.actions
            /\ UNCHANGED fatalErr
  /\ UNCHANGED <<shapeVars, candidateId, fetchVars, goal, concurrency,
                 dryRun, ok, fail, result>>
  /\ UNCHANGED <<limVars, loopVars, harnessVars, retryVars>>

\* (mutant) the dry-run branch without its return: main goes on to the batch
MainDryRunNoReturn ==
  /\ mpc = "planned" /\ dryRun
  /\ LimiterAccepts(concurrency)
  /\ mpc' = "launching"
  /\ BatchFresh(Len(actions))
  /\ UNCHANGED <<shapeVars, candidateId, fetchVars, goal, concurrency,
                 dryRun, grid, actions, fatalErr,
                 result, loopVars>>

\* if (dryRun) { ...; return; }
MainDryRun ==
  /\ mpc = "planned" /\ dryRun
  /\ mpc' = "returned"
  /\ UNCHANGED <<shapeVars, candidateId, fetchVars, goal, concurrency,
                 dryRun, grid, actions,
                 fatalErr, ok, fail, result>>
  /\ UNCHANGED <<limVars, loopVars, harnessVars, retryVars>>

\* const limiter = new Limiter(concurrency); let ok = 0; let fail = 0;
MainLimiter ==
  /\ mpc = "planned" /\ ~dryRun
  /\ IF LimiterAccepts(concurrency)
       THEN /\ mpc' = "launching"
            /\ BatchFresh(Len(actions))
            /\ UNCHANGED fatalErr
       ELSE /\ mpc' = "fatal" /\ fatalErr' = "Concurrency must be >= 1"
            /\ UNCHANGED <<limVars, harnessVars, retryVars, ok, fail>>
  /\ UNCHANGED <<shapeVars, candidateId, fetchVars, goal, concurrency,
                 dryRun, grid, actions, result,
                 loopVars>>

\* task() of an action: withRetry(a.run, {retries: 6, ...}).then(...).catch(...)
\* is called when the invocation is admitted
BatchStart(i) ==
  IF TaskCalled(i)
    THEN /\ tstate' = [tstate EXCEPT ![i] = "pending"]
         /\ WRCall(i)
    ELSE UNCHANGED <<tstate, retryVars>>

\* actions.map((a) => limiter.run(...)): one turn of the map, all turns in
\* the segment of main that planned
MainLaunch ==
  /\ mpc = "launching"
  /\ Len(callOrder) < Len(actions)
  /\ LET i == Len(callOrder) + 1 IN
     /\ RunCall(i)
     /\ rresult' = [rresult EXCEPT ![i] = "pending"]
     /\ BatchStart(i)
  /\ UNCHANGED <<mainVars, loopVars>>

\* await Promise.all(...): main suspends
MainAwait ==
  /\ mpc = "launching"
  /\ Len(callOrder) = Len(actions)
  /\ mpc' = "awaiting"
  /\ UNCHANGED <<shapeVars, candidateId, fetchVars, goal, concurrency,
                 dryRun, grid, actions,
                 fatalErr, ok, fail, result>>
  /\ UNCHANGED <<limVars, loopVars, harnessVars, retryVars>>

\* a create request is answered
BatchRespond(i, o) ==
  /\ mpc = "awaiting"
  /\ WRRespond(i, o)
  /\ UNCHANGED <<limVars, harnessVars, phase, mainVars>>

\* the same, in a run that meets at most MaxFaults failed requests
MainRespond(i, o) ==
  /\ (~o.ok) => SumSeq(fails) < MaxFaults
  /\ BatchRespond(i, o)

BatchFnSettled(i) ==
  /\ microtasks # <<>> /\ Head(microtasks) = Job("fnSettled", i)
  /\ WRSettled(i, Tail(microtasks), <<Job("then", i)>>)
  /\ UNCHANGED <<limVars, harnessVars, phase, mainVars>>

BatchTimer(i) ==
  /\ mpc = "awaiting"
  /\ WRTimer(i)
  /\ UNCHANGED <<limVars, harnessVars, phase, mainVars>>

BatchWake(i) ==
  /\ microtasks # <<>> /\ Head(microtasks) = Job("wake", i)
  /\ WRWake(i)
  /\ microtasks' = Tail(microtasks)
  /\ UNCHANGED <<limVars, harnessVars, phase, mainVars>>

\* reaction of .then(() => { ok++; ... }): runs the handler on fulfilment,
\* passes a rejection on to the catch
BatchThen(i) ==
  /\ microtasks # <<>> /\ Head(microtasks) = Job("then", i)
  /\ ok' = IF wout[i].state = "fulfilled" THEN ok + 1 ELSE ok
  /\ microtasks' = Append(Tail(microtasks), Job("catch", i))
  /\ UNCHANGED <<mpc, shapeVars, candidateId, fetchVars, goal, concurrency,
                 dryRun, grid, actions,
                 fatalErr, fail, result>>
  /\ UNCHANGED <<limVars, harnessVars, retryVars, phase>>

\* reaction of .catch((err) => { fail++; ... }): runs the handler on
\* rejection; the promise it returns is task()'s
BatchCatch(i) ==
  /\ microtasks # <<>> /\ Head(microtasks) = Job("catch", i)
  /\ fail' = IF wout[i].state = "rejected" THEN fail + 1 ELSE fail
  /\ tstate' = [tstate EXCEPT ![i] = AfterCatch(wout[i].state)]
  /\ microtasks' = Append(Tail(microtasks), Job("settled", i))
  /\ UNCHANGED <<mpc, shapeVars, candidateId, fetchVars, goal, concurrency,
                 dryRun, grid, actions,
                 fatalErr, ok, result>>
  /\ UNCHANGED <<limVars, rresult, retryVars, phase>>

\* a woken waiter continues: active++ and task()
BatchResume(i) ==
  /\ microtasks # <<>> /\ Head(microtasks) = Job("resume", i)
  /\ RunResume(i)
  /\ BatchStart(i)
  /\ microtasks' = Tail(microtasks)
  /\ UNCHANGED <<rresult, phase, mainVars>>

\* run() continues after await task(): finally, then run's promise settles
BatchFinally(i) ==
  /\ microtasks # <<>> /\ Head(microtasks) = Job("settled", i)
  /\ RunFinally(i, Tail(microtasks))
  /\ rresult' = [rresult EXCEPT ![i] = tstate[i]]
  /\ UNCHANGED <<tstate, retryVars, phase, mainVars>>

\* main continues after await Promise.all(...): the "Done." line; or, had a
\* promise of the batch rejected, main rejects with its error
MainJoin ==
  /\ mpc = "awaiting"
  /\ microtasks = <<>>
  /\ JoinSettled
  /\ IF \E i \in DOMAIN rresult : rresult[i] = "rejected"
       THEN /\ mpc' = "fatal" /\ fatalErr' = "action failed"
            /\ UNCHANGED result
       ELSE /\ mpc' = "done"
            /\ result' = [succeeded |-> ok, failed |-> fail]
            /\ UNCHANGED fatalErr
  /\ UNCHANGED <<shapeVars, candidateId, fetchVars, goal, concurrency,
                 dryRun, grid, actions, ok, fail>>
  /\ UNCHANGED <<limVars, loopVars, harnessVars, retryVars>>

NextBatch ==
  \/ MainPlan
  \/ MainLimiter
  \/ MainLaunch
  \/ MainAwait
  \/ \E i \in DOMAIN wpc, o \in BatchOutcomes : BatchRespond(i, o)
  \/ \E i \in DOMAIN wpc : BatchFnSettled(i)
  \/ \E i \in DOMAIN wpc : BatchTimer(i)
  \/ \E i \in DOMAIN wpc : BatchWake(i)
  \/ \E i \in DOMAIN wpc : BatchThen(i)
  \/ \E i \in DOMAIN wpc : BatchCatch(i)
  \/ \E i \in DOMAIN wpc : BatchResume(i)
  \/ \E i \in DOMAIN wpc : BatchFinally(i)
  \/ MainJoin

Next ==
  \/ MainClient
  \/ MainFetchGoal
  \/ MainFetchRetry
  \/ MainPlan
  \/ MainDryRun
  \/ MainLimiter
  \/ MainLaunch
  \/ MainAwait
  \/ \E i \in DOMAIN wpc, o \in BatchOutcomes : MainRespond(i, o)
  \/ \E i \in DOMAIN wpc : BatchFnSettled(i)
  \/ \E i \in DOMAIN wpc : BatchTimer(i)
  \/ \E i \in DOMAIN wpc : BatchWake(i)
  \/ \E i \in DOMAIN wpc : BatchThen(i)
  \/ \E i \in DOMAIN wpc : BatchCatch(i)
  \/ \E i \in DOMAIN wpc : BatchResume(i)
  \/ \E i \in DOMAIN wpc : BatchFinally(i)
  \/ MainJoin

(***************************************************************************)
(* Grid, XShape and main of phase 1                                        *)
(***************************************************************************)
\* Grid constructor: throws unless size is a positive integer
Grid1Accepts(size) == ~(size <= 0)

\* Grid.inBounds
InBounds1(size, p) ==
  p.row >= 0 /\ p.row < size /\ p.column >= 0 /\ p.column < size

\* XShape constructor: throws unless boxSize is a positive odd integer
XShapeAccepts(boxSize) == ~(boxSize <= 0 \/ boxSize % 2 = 0)

\* const key = (p) => `${p.row},${p.column}`
Key(p) == ToString(p.row) \o "," \o ToString(p.column)

\* the for loop of points(), from d on: the two diagonal cells of row
\* center.row + d are pushed when they are in bounds
RECURSIVE PointsLoop(_, _, _, _, _)
PointsLoop(size, ctr, half, d, pts) ==
  IF d > half
    THEN pts
    ELSE LET a == [row |-> ctr.row + d, column |-> ctr.column + d]
             b == [row |-> ctr.row + d, column |-> ctr.column - d]
             pa == IF InBounds1(size, a) THEN Append(pts, a) ELSE pts
             pb == IF InBounds1(size, b) THEN Append(pa, b) ELSE pa
         IN PointsLoop(size, ctr, half, d + 1, pb)

\* (mutant) no filter: every pushed point is returned
FilterKeepAll(pts, seen, out) == pts

\* pts.filter((p) => (seen.has(key(p)) ? false : (seen.add(key(p)), true)))
RECURSIVE FilterSeen(_, _, _)
FilterSeen(pts, seen, out) ==
  IF pts = <<>>
    THEN out
    ELSE LET k == Key(Head(pts)) IN
         IF k \in seen
           THEN FilterSeen(Tail(pts), seen, out)
           ELSE FilterSeen(Tail(pts), seen \cup {k}, Append(out, Head(pts)))

\* XShape.points(grid), half being Math.floor(boxSize / 2)
XPoints(size, boxSize, ctr) ==
  LET half == boxSize \div 2 IN
  FilterSeen(PointsLoop(size, ctr, half, 0 - half, <<>>), {}, <<>>)

\* const limiter = new Limiter(concurrency), with the per-point state of the
\* n invocations to come
Phase1Fresh(n) ==
  /\ max' = concurrency /\ active' = 0 /\ queue' = <<>>
  /\ lpc' = [i \in 1..n |-> "idle"]
  /\ callOrder' = <<>> /\ startOrder' = <<>>
  /\ tstate' = [i \in 1..n |-> "none"]
  /\ rresult' = [i \in 1..n |-> "none"]
  /\ retries' = [i \in 1..n |-> Phase1Retries]
  /\ copy' = [i \in 1..n |-> 1]
  /\ attempt' = [i \in 1..n |-> 0]
  /\ wpc' = [i \in 1..n |-> "idle"]
  /\ fnres' = [i \in 1..n |-> [ok |-> TRUE, value |-> 0]]
  /\ calls' = [i \in 1..n |-> 0]
  /\ fails' = [i \in 1..n |-> 0]
  /\ lastErr' = [i \in 1..n |-> NoError]
  /\ onRetryLog' = [i \in 1..n |-> <<>>]
  /\ onRetryErr' = [i \in 1..n |-> NoError]
  /\ sleeps' = [i \in 1..n |-> 0]
  /\ wout' = [i \in 1..n |-> [state |-> "pending"]]

\* the values a dry run is given in place of GRID_SIZE, X_SIZE and CENTER
ShapeInputs ==
  {[size |-> n, box |-> b, center |-> [row |-> r, column |-> c]] :
     n \in 0..MaxGrid, b \in 0..MaxBox, r \in (0 - 1)..MaxGrid, c \in (0 - 1)..MaxGrid}

Phase1Blank ==
  /\ mpc = "p1start"
  /\ points = <<>>
  /\ goal = <<>> /\ MainBlank

\* main of phase 1 is called: with the configured shape, and, as a dry run,
\* with any shape of ShapeInputs
InitPhase1 ==
  /\ \/ /\ gridSize = GRID_SIZE /\ xSize = X_SIZE /\ center = CENTER
        /\ dryRun \in BOOLEAN
     \/ /\ \E sh \in ShapeInputs :
             gridSize = sh.size /\ xSize = sh.box /\ center = sh.center
        /\ dryRun = TRUE
  /\ candidateId \in CandidateIds
  /\ goalAttempt = 0 /\ goalCalls = 0
  /\ concurrency \in 0..MaxConc
  /\ Phase1Blank

\* const client = new CrossmintClient(candidateId); const grid = new
\* Grid(GRID_SIZE); const shape = new XShape(X_SIZE, CENTER); const points =
\* shape.points(grid);
P1Plan ==
  /\ mpc = "p1start"
  /\ IF ~ClientAccepts(candidateId)
       THEN /\ mpc' = "fatal" /\ fatalErr' = "CANDIDATE_ID env var is required"
            /\ UNCHANGED points
       ELSE IF ~Grid1Accepts(gridSize)
       THEN /\ mpc' = "fatal" /\ fatalErr' = "Grid size must be a positive integer"
            /\ UNCHANGED points
       ELSE IF ~XShapeAccepts(xSize)
         THEN /\ mpc' = "fatal"
              /\ fatalErr' = "XShape.boxSize must be a positive odd integer"
              /\ UNCHANGED points
         ELSE /\ mpc' = "p1planned"
              /\ points' = XPoints(gridSize, xSize, center)
              /\ UNCHANGED fatalErr
  /\ UNCHANGED <<gridSize, xSize, center, candidateId, fetchVars, goal,
                 concurrency,
                 dryRun, grid,
                 actions, ok, fail, result>>
  /\ UNCHANGED <<limVars, loopVars, harnessVars, retryVars>>

\* const limiter = new Limiter(concurrency); and the listing of the points
P1Limiter ==
  /\ mpc = "p1planned"
  /\ IF LimiterAccepts(concurrency)
       THEN /\ mpc' = "p1listed"
            /\ Phase1Fresh(Len(points))
            /\ UNCHANGED fatalErr
       ELSE /\ mpc' = "fatal" /\ fatalErr' = "Concurrency must be >= 1"
            /\ UNCHANGED <<limVars, harnessVars, retryVars>>
  /\ UNCHANGED <<shapeVars, candidateId, fetchVars, goal, concurrency,
                 dryRun, grid, actions, ok, fail,
                 result, loopVars>>

\* if (dryRun) { ...; return; }
P1DryRun ==
  /\ mpc = "p1listed" /\ dryRun
  /\ mpc' = "returned"
  /\ UNCHANGED <<shapeVars, candidateId, fetchVars, goal, concurrency,
                 dryRun, grid, actions, fatalErr,
                 ok, fail, result>>
  /\ UNCHANGED <<limVars, loopVars, harnessVars, retryVars>>

\* let ok = 0; let fail = 0; and points.map((p) => limiter.run(...)): one
\* turn of the map
P1Launch ==
  /\ mpc = "p1listed" /\ ~dryRun
  /\ Len(callOrder) < Len(points)
  /\ LET i == Len(callOrder) + 1 IN
     /\ RunCall(i)
     /\ rresult' = [rresult EXCEPT ![i] = "pending"]
     /\ BatchStart(i)
  /\ UNCHANGED <<mainVars, loopVars>>

\* await Promise.all(...): main suspends
P1Await ==
  /\ mpc = "p1listed" /\ ~dryRun
  /\ Len(callOrder) = Len(points)
  /\ mpc' = "awaiting"
  /\ UNCHANGED <<shapeVars, candidateId, fetchVars, goal, concurrency,
                 dryRun, grid, actions, fatalErr,
                 ok, fail, result>>
  /\ UNCHANGED <<limVars, loopVars, harnessVars, retryVars>>

NextPhase1 ==
  \/ P1Plan
  \/ P1Limiter
  \/ P1DryRun
  \/ P1Launch
  \/ P1Await
  \/ \E i \in DOMAIN wpc, o \in BatchOutcomes : MainRespond(i, o)
  \/ \E i \in DOMAIN wpc : BatchFnSettled(i)
  \/ \E i \in DOMAIN wpc : BatchTimer(i)
  \/ \E i \in DOMAIN wpc : BatchWake(i)
  \/ \E i \in DOMAIN wpc : BatchThen(i)
  \/ \E i \in DOMAIN wpc : BatchCatch(i)
  \/ \E i \in DOMAIN wpc : BatchResume(i)
  \/ \E i \in DOMAIN wpc : BatchFinally(i)
  \/ MainJoin

(***************************************************************************)
(* Dry runs of main (phase 2) on goal maps over the whole grammar and over *)
(* strings outside it: planActions and parseToken as main applies them.    *)
(***************************************************************************)
\* tokens a goal map is made of: the ten of the grammar, and strings the
\* patterns of parseToken must not match
PlanTokens ==
  {"SPACE", "POLYANET", "BLUE_SOLOON", "RED_SOLOON", "PURPLE_SOLOON",
   "WHITE_SOLOON", "UP_COMETH", "DOWN_COMETH", "LEFT_COMETH", "RIGHT_COMETH",
   "GREEN_SOLOON", "blue_soloon", "Polyanet", " SPACE", "SPACE ", "SOLOON",
   "_COMETH", "UP_SOLOON", "BLUE_COMETH", "BLUE_SOLOONS", ""}

\* tokens of the larger goal maps
PlanSample == {"SPACE", "POLYANET", "RIGHT_COMETH"}

\* a 2x2 goal map with one cell of each kind
PlanExample == <<<<"POLYANET", "SPACE">>, <<"BLUE_SOLOON", "RIGHT_COMETH">>>>

\* rectangular goal maps of h rows and w columns over the tokens T
Matrices(h, w, T) == [1..h -> [1..w -> T]]

PlanGoals ==
  {PlanExample}
  \cup UNION {UNION {Matrices(h, w, PlanTokens) :
                  w \in {x \in 1..MaxPlanCells : h * x <= MaxPlanCells}} :
           h \in 1..MaxPlanCells}
  \cup UNION {UNION {Matrices(h, w, PlanSample) : w \in 1..MaxSide} :
                h \in 1..MaxSide}

\* main has fetched a goal map, DRY_RUN=true
InitPlan ==
  /\ NoShape
  /\ mpc = "fetched"
  /\ candidateId \in CandidateIds \ {""}
  /\ goalAttempt = 0 /\ goalCalls = 1
  /\ goal \in PlanGoals
  /\ concurrency = 8
  /\ dryRun = TRUE
  /\ MainBlank

NextPlan ==
  \/ MainPlan
  \/ MainDryRun

vars == <<limVars, loopVars, harnessVars, retryVars, mainVars>>

\* What the batch relies on to make progress: the script runs on (main's
\* own segments and the promise reactions the event loop drains), every
\* create request is answered, every backoff timer fires.
MainProgress ==
  MainPlan \/ MainLimiter \/ MainLaunch \/ MainAwait \/ MainJoin

MicrotaskProgress ==
  \E i \in DOMAIN wpc :
    \/ BatchFnSettled(i) \/ BatchWake(i) \/ BatchThen(i) \/ BatchCatch(i)
    \/ BatchResume(i) \/ BatchFinally(i)

RequestAnswered(i) ==
  i \in DOMAIN wpc /\ \E o \in BatchOutcomes : BatchRespond(i, o)

TimerElapsed(i) == i \in DOMAIN wpc /\ BatchTimer(i)

BatchFairness ==
  /\ WF_vars(MainProgress)
  /\ WF_vars(MicrotaskProgress)
  /\ \A i \in 1..MaxActions : WF_vars(RequestAnswered(i))
  /\ \A i \in 1..MaxActions : WF_vars(TimerElapsed(i))

SpecBatchLive == InitBatch /\ [][NextBatch]_vars /\ BatchFairness

SpecPlan == InitPlan /\ [][NextPlan]_vars

SpecPhase1 == InitPhase1 /\ [][NextPhase1]_vars

\* either script is run
InitScripts == InitMain \/ InitPhase1

NextScripts ==
  \/ MainClient
  \/ MainFetchGoal
  \/ MainFetchRetry
  \/ MainPlan
  \/ MainDryRun
  \/ MainLimiter
  \/ MainLaunch
  \/ MainAwait
  \/ P1Plan
  \/ P1Limiter
  \/ P1DryRun
  \/ P1Launch
  \/ P1Await
  \/ \E i \in DOMAIN wpc, o \in BatchOutcomes : MainRespond(i, o)
  \/ \E i \in DOMAIN wpc : BatchFnSettled(i)
  \/ \E i \in DOMAIN wpc : BatchTimer(i)
  \/ \E i \in DOMAIN wpc : BatchWake(i)
  \/ \E i \in DOMAIN wpc : BatchThen(i)
  \/ \E i \in DOMAIN wpc : BatchCatch(i)
  \/ \E i \in DOMAIN wpc : BatchResume(i)
  \/ \E i \in DOMAIN wpc : BatchFinally(i)
  \/ MainJoin

SpecScripts == InitScripts /\ [][NextScripts]_vars

SpecLimiter == InitLimiter /\ [][NextLimiter]_vars

SpecRetry == InitRetry /\ [][NextRetry]_vars

SpecRetryPair == InitRetryPair /\ [][NextRetryPair]_vars

SpecBatch == InitBatch /\ [][NextBatch]_vars

Spec == InitMain /\ [][Next]_vars

(***************************************************************************)
(* Claims about the Limiter, under SpecLimiter                             *)
(***************************************************************************)
InQueue(s, x) == \E k \in 1..Len(s) : s[k] = x

\* C1: for every Limiter with max >= 1 and every interleaving of run()
\* invocations and task completions, 0 <= active <= max in every reachable
\* state.
C1_ActiveWithinMax == 0 <= active /\ active <= max

\* C2: admission is FIFO: if run() was invoked for a before b and b's task
\* has started, then a's task started before b's.
C2_StartOrderIsCallOrder ==
  \A a, b \in Tasks :
    (/\ InQueue(callOrder, a) /\ InQueue(callOrder, b)
     /\ Pos(callOrder, a) < Pos(callOrder, b)
     /\ InQueue(startOrder, b))
    => (InQueue(startOrder, a) /\ Pos(startOrder, a) < Pos(startOrder, b))

\* C5: whenever an admitted task terminates, by success or by failure, the
\* cleanup is pending and is the next thing run() does: active is decremented by exactly one
\* and, if the queue is non-empty, exactly the head waiter is removed and
\* its continuation queued; with an empty queue nobody is woken.
C5_CleanupGuaranteed ==
  /\ [](\A i \in Tasks :
         (lpc[i] = "running" /\ tstate[i] \in {"fulfilled", "rejected"})
         => InQueue(microtasks, Job("settled", i)))
  /\ [][\A i \in Tasks :
         (/\ phase = "drain" /\ microtasks # <<>>
          /\ Head(microtasks) = Job("settled", i))
         => /\ lpc'[i] = "returned"
            /\ active' = active - 1
            /\ IF queue = <<>>
                 THEN queue' = <<>> /\ microtasks' = Tail(microtasks)
                 ELSE /\ queue' = Tail(queue)
                      /\ microtasks' =
                           Append(Tail(microtasks), Job("resume", Head(queue)))]_vars

\* C5 witness: a task that failed has released its slot and woken a waiter
C5_Witness ==
  \E i, j \in Tasks :
    /\ tstate[i] = "rejected" /\ lpc[i] = "returned"
    /\ lpc[j] = "queued" /\ InQueue(microtasks, Job("resume", j))
    /\ active = max - 1

\* C14: in every reachable state of a Limiter the waiter queue is empty
\* whenever active < max: no caller is queued while a slot is free.
C14_QueueEmptyWhenSlotFree == (active < max) => (queue = <<>>)

(***************************************************************************)
(* Claims about withRetry, under SpecRetry                                 *)
(***************************************************************************)
\* transient as the specification words it: no status code, or status 429,
\* or a status >= 500
SpecTransient(e) == ~HasStatus(e) \/ e.status = 429 \/ e.status >= 500

\* the catch block has dealt with the failure of the latest fn() call
Caught(c) == lastErr[c].seq = calls[c] /\ calls[c] > 0

\* C6: with retries = r, an operation that fails transiently on every call
\* is called exactly r + 1 times (never more), then its last failure is
\* propagated; with r = 0 there is exactly one call and no retry, whatever
\* the failure kind.
C6_AttemptsAreRetriesPlusOne ==
  \A c \in DOMAIN wpc :
    /\ calls[c] <= retries[c] + 1
    /\ (wpc[c] = "thrown" /\ SpecTransient(lastErr[c]))
       => /\ calls[c] = retries[c] + 1
          /\ fails[c] = retries[c] + 1
          /\ lastErr[c].seq = calls[c]
          /\ wout[c] = [state |-> "rejected", error |-> lastErr[c]]
    /\ (retries[c] = 0)
       => /\ calls[c] <= 1 /\ sleeps[c] = 0 /\ onRetryLog[c] = <<>>
          /\ (Caught(c) => wpc[c] = "thrown")

\* C6 witness: a budget of at least two retries was used up by transient
\* failures
C6_Witness ==
  \E c \in DOMAIN wpc :
    /\ retries[c] >= 2 /\ wpc[c] = "thrown" /\ SpecTransient(lastErr[c])
    /\ calls[c] = retries[c] + 1

\* C7: both copies classify a failure as transient iff it has no status, or
\* status 429, or a status >= 500; a failure with any other status is
\* propagated at once: no further call, no onRetry, no sleep for it,
\* whatever is left of the budget; a transient one within the budget is
\* retried.
C7_ClassificationAndFatal ==
  \A c \in DOMAIN wpc :
    Caught(c) =>
      LET e == lastErr[c] IN
      /\ Transient1(e) = SpecTransient(e)
      /\ Transient2(e) = SpecTransient(e)
      /\ ~SpecTransient(e)
         => /\ wpc[c] = "thrown"
            /\ wout[c] = [state |-> "rejected", error |-> e]
            /\ Len(onRetryLog[c]) = calls[c] - 1
            /\ sleeps[c] = calls[c] - 1
      /\ (SpecTransient(e) /\ attempt[c] < retries[c])
         => /\ wpc[c] \in {"sleeping", "waking"}
            /\ Len(onRetryLog[c]) = calls[c]
            /\ sleeps[c] = calls[c]

\* C7 witness: a 499 on a later call, with budget left, ended the call
C7_Witness ==
  \E c \in DOMAIN wpc :
    /\ Caught(c) /\ HasStatus(lastErr[c]) /\ lastErr[c].status = 499
    /\ calls[c] = 2 /\ attempt[c] < retries[c] /\ wpc[c] = "thrown"

\* C8: with k <= retries transient failures followed by a success, fn is
\* called exactly k + 1 times and withRetry returns the value of the last
\* call; nothing is called after a success, and withRetry does not give up
\* on a transient failure while k <= retries.
C8_SuccessAfterKFailures ==
  \A c \in DOMAIN wpc :
    /\ (wpc[c] = "returned")
       => /\ calls[c] = fails[c] + 1
          /\ fails[c] <= retries[c]
          /\ wout[c] = [state |-> "fulfilled", value |-> calls[c]]
    /\ (wpc[c] = "thrown" /\ SpecTransient(lastErr[c])) => fails[c] > retries[c]

\* C8 witness: two status-500 failures, then success on the third call
C8_Witness ==
  \E c \in DOMAIN wpc :
    /\ wpc[c] = "returned" /\ calls[c] = 3 /\ fails[c] = 2
    /\ lastErr[c] = [status |-> 500, seq |-> 2]
    /\ wout[c] = [state |-> "fulfilled", value |-> 3]

\* withRetry gave up on a transient failure because the budget was used up
Exhausted(c) ==
  wpc[c] = "thrown" /\ SpecTransient(lastErr[c]) /\ attempt[c] >= retries[c]

\* C9 (as claimed): when withRetry gives up on a transient failure with
\* attempt >= retries, the failure it propagates carries an exhausted-retries
\* tag, a property the operation's own failure does not have.
C9_ExhaustionIsTagged ==
  \A c \in DOMAIN wpc :
    Exhausted(c) => \E f \in DOMAIN wout[c].error : f \notin {"status", "seq"}

\* C9 (amended): when withRetry gives up, on exhaustion as on a fatal
\* failure, it propagates the failure of the last call itself, unchanged:
\* no property is added, so the two cases differ only by the failure's own
\* status.
C9_LastFailureUnchanged ==
  \A c \in DOMAIN wpc :
    (wpc[c] = "thrown")
    => /\ wout[c] = [state |-> "rejected", error |-> lastErr[c]]
       /\ lastErr[c] = fnres[c].error
       /\ DOMAIN wout[c].error \subseteq {"status", "seq"}

\* C9 witness: the budget was used up on a 503 after at least one retry
C9_Witness ==
  \E c \in DOMAIN wpc :
    /\ Exhausted(c) /\ retries[c] >= 1
    /\ wout[c].error = [status |-> 503, seq |-> retries[c] + 1]

\* fn() calls of invocation c not yet answered
Unanswered(c) ==
  calls[c] - fails[c] - (IF wpc[c] = "returned" THEN 1 ELSE 0)
    - (IF wpc[c] = "settling" THEN 1 ELSE 0)

\* C17: within one withRetry call the attempts are sequential and bounded:
\* at most one call of fn is unanswered at any time; the attempt counter
\* starts at 0 and the number of calls is attempt + 1; a further call is
\* made only by the continuation of the backoff sleep that follows a caught
\* transient failure of the previous call, and raises attempt by exactly 1;
\* there are never more than retries + 1 calls (7 with the retries of the
\* batch runner).
C17_AttemptsSequentialAndBounded ==
  /\ [](\A c \in DOMAIN wpc :
         /\ calls[c] <= retries[c] + 1
         /\ (retries[c] = BatchRetries) => calls[c] <= 7
         /\ IF wpc[c] = "idle" THEN calls[c] = 0 /\ attempt[c] = 0
                               ELSE calls[c] = attempt[c] + 1
         /\ Unanswered(c) = IF wpc[c] = "inflight" THEN 1 ELSE 0
         /\ (wpc[c] = "inflight")
            => (fails[c] = calls[c] - 1 /\ sleeps[c] = calls[c] - 1)
         /\ (wpc[c] \in {"sleeping", "waking"})
            => (fails[c] = calls[c] /\ sleeps[c] = calls[c]))
  /\ [][\A c \in DOMAIN wpc :
         /\ (calls'[c] # calls[c]) =>
              /\ calls'[c] = calls[c] + 1 /\ wpc'[c] = "inflight"
              /\ IF calls[c] = 0
                   THEN wpc[c] = "idle" /\ attempt'[c] = 0
                   ELSE /\ wpc[c] = "waking"
                        /\ attempt'[c] = attempt[c] + 1
                        /\ lastErr[c].seq = calls[c]
                        /\ SpecTransient(lastErr[c])
         /\ (attempt'[c] # attempt[c]) => (calls'[c] = calls[c] + 1)
         /\ (wpc'[c] = "waking" /\ wpc[c] # "waking") => wpc[c] = "sleeping"
         /\ (wpc'[c] = "sleeping" /\ wpc[c] # "sleeping") => wpc[c] = "settling"
     ]_vars

\* C17 witness: the seventh call of an invocation with retries 6 is in
\* flight, after six failures and six sleeps
C17_Witness ==
  \E c \in DOMAIN wpc :
    /\ retries[c] = BatchRetries /\ wpc[c] = "inflight"
    /\ calls[c] = 7 /\ attempt[c] = 6 /\ fails[c] = 6 /\ sleeps[c] = 6

\* C18: opts.onRetry is called exactly once per retry and only for retries:
\* its calls carry the attempt numbers 1, 2, ... in order, one per backoff
\* sleep; a withRetry call that ends after m calls of fn has made exactly
\* m - 1 onRetry calls; each is made by the catch block of a failed call,
\* with the error of that call, before the sleep and before the next call
\* of fn; the failure withRetry throws (fatal, or the one that exhausts the
\* budget) is not reported to it.
C18_OnRetryOncePerRetry ==
  /\ [](\A c \in DOMAIN wpc :
         /\ onRetryLog[c] = [k \in 1..sleeps[c] |-> k]
         /\ (wpc[c] \in {"returned", "thrown"}) => Len(onRetryLog[c]) = calls[c] - 1
         /\ (wpc[c] \in {"inflight", "settling"}) => Len(onRetryLog[c]) = calls[c] - 1
         /\ (wpc[c] \in {"sleeping", "waking"}) => Len(onRetryLog[c]) = calls[c]
         /\ IF onRetryLog[c] = <<>>
              THEN onRetryErr[c] = NoError
              ELSE /\ onRetryErr[c].seq = Len(onRetryLog[c])
                   /\ SpecTransient(onRetryErr[c])
         /\ (wpc[c] = "thrown") => onRetryErr[c] # lastErr[c])
  /\ [][\A c \in DOMAIN wpc :
         /\ (onRetryLog'[c] # onRetryLog[c]) =>
              /\ wpc[c] = "settling" /\ ~fnres[c].ok
              /\ onRetryLog'[c] = Append(onRetryLog[c], attempt[c] + 1)
              /\ onRetryErr'[c] = fnres[c].error
              /\ fnres[c].error.seq = calls[c]
              /\ wpc'[c] = "sleeping" /\ sleeps'[c] = sleeps[c] + 1
              /\ calls'[c] = calls[c] /\ attempt'[c] = attempt[c]
         /\ (wpc'[c] = "thrown" /\ wpc[c] # "thrown") =>
              (onRetryLog'[c] = onRetryLog[c] /\ onRetryErr'[c] = onRetryErr[c])
         /\ (wpc'[c] = "sleeping" /\ wpc[c] # "sleeping") =>
              Len(onRetryLog'[c]) = Len(onRetryLog[c]) + 1
     ]_vars

\* C18 witness: a call that ended on a fatal 404 at its fourth attempt made
\* the three onRetry calls 1, 2, 3, the last with the error of the third
\* attempt
C18_Witness ==
  \E c \in DOMAIN wpc :
    /\ wpc[c] = "thrown" /\ calls[c] = 4 /\ lastErr[c] = [status |-> 404, seq |-> 4]
    /\ onRetryLog[c] = <<1, 2, 3>> /\ onRetryErr[c].seq = 3

\* everything withRetry invocation c keeps
Own(c) == <<retries[c], copy[c], attempt[c], wpc[c], fnres[c], calls[c], fails[c],
            lastErr[c], onRetryLog[c], onRetryErr[c], sleeps[c], wout[c]>>

\* C19: interleaved withRetry invocations do not affect one another.  A
\* step of one leaves everything of the other as it was; and for each
\* invocation the number of calls of fn and the outcome follow from its own
\* retries and its own operation's results alone, under every interleaving:
\* it returns the value of its first successful call, having failed
\* transiently before; it throws the first fatal failure, or the transient
\* failure of call retries + 1; it goes on after any other failure.
C19_InvocationsIndependent ==
  /\ [][\A c, d \in DOMAIN wpc :
         (c # d /\ Own(c)' # Own(c)) => Own(d)' = Own(d)]_vars
  /\ [](\A c \in DOMAIN wpc :
         /\ (wpc[c] # "idle") => calls[c] = attempt[c] + 1
         /\ (wpc[c] = "returned")
            => /\ wout[c] = [state |-> "fulfilled", value |-> calls[c]]
               /\ fails[c] = calls[c] - 1 /\ calls[c] <= retries[c] + 1
         /\ (wpc[c] = "thrown")
            => /\ wout[c] = [state |-> "rejected", error |-> lastErr[c]]
               /\ lastErr[c].seq = calls[c] /\ fails[c] = calls[c]
               /\ IF SpecTransient(lastErr[c])
                    THEN calls[c] = retries[c] + 1
                    ELSE calls[c] <= retries[c] + 1
         /\ (wpc[c] \in {"sleeping", "waking"})
            => /\ SpecTransient(lastErr[c]) /\ lastErr[c].seq = calls[c]
               /\ calls[c] <= retries[c]
         /\ (wpc[c] = "inflight" /\ calls[c] > 1)
            => /\ SpecTransient(lastErr[c]) /\ lastErr[c].seq = calls[c] - 1)

\* C19 witness: two invocations are under way at once with different
\* counters: the first sleeps after the failure of its first call, the
\* second has its third call in flight
C19_Witness ==
  /\ DOMAIN wpc = {1, 2}
  /\ retries[1] = 1 /\ retries[2] = 2
  /\ wpc[1] = "sleeping" /\ attempt[1] = 0 /\ calls[1] = 1
  /\ wpc[2] = "inflight" /\ attempt[2] = 2 /\ calls[2] = 3

(***************************************************************************)
(* Claims about the batch, under SpecBatch                                 *)
(***************************************************************************)
\* C3: when the Promise.all join of main returns, every action has reached
\* a terminal state, none is queued, running or sleeping, each has been
\* counted once, and succeeded + failed = n.
C3_BarrierAndAccounting ==
  (mpc = "done") =>
    LET n == Len(actions) IN
    /\ DOMAIN wpc = 1..n
    /\ \A i \in 1..n :
         /\ wpc[i] \in {"returned", "thrown"}
         /\ lpc[i] = "returned" /\ rresult[i] = "fulfilled"
    /\ queue = <<>> /\ active = 0 /\ microtasks = <<>>
    /\ result.succeeded = Cardinality({i \in 1..n : wpc[i] = "returned"})
    /\ result.failed = Cardinality({i \in 1..n : wpc[i] = "thrown"})
    /\ result.succeeded + result.failed = n

\* C3 witness: a batch of two has returned with a success and a failure
\* that used up its retries
C3_Witness ==
  /\ mpc = "done" /\ Len(actions) = 2
  /\ result.succeeded = 1 /\ result.failed = 1
  /\ \E i \in DOMAIN wpc : fails[i] = BatchRetries + 1

\* C4: the batch never re-throws, and when it returns every action was
\* started and is terminal, those whose operation kept failing (fatally or
\* to the end of the retries) are the failed ones, all others the succeeded
\* ones: the result is {succeeded: n - |F|, failed: |F|}, for every
\* concurrency >= 1.
C4_PartialFailureIsolation ==
  /\ mpc # "fatal" /\ fatalErr = ""
  /\ (mpc = "done") =>
       LET n == Len(actions)
           F == {i \in 1..n : ~fnres[i].ok}
       IN /\ \A i \in 1..n : calls[i] >= 1
          /\ \A i \in 1..n :
               wout[i].state = IF i \in F THEN "rejected" ELSE "fulfilled"
          /\ result = [succeeded |-> n - Cardinality(F), failed |-> Cardinality(F)]

\* C4 witness: two actions, one at a time; the first failed fatally on its
\* first request, the second, queued behind it, was started and succeeded:
\* {succeeded: 1, failed: 1}
C4_Witness ==
  /\ mpc = "done" /\ Len(actions) = 2 /\ max = 1
  /\ calls[1] = 1 /\ lastErr[1] = [status |-> 404, seq |-> 1]
  /\ startOrder = <<1, 2>> /\ wout[2].state = "fulfilled"
  /\ result = [succeeded |-> 1, failed |-> 1]

(***************************************************************************)
(* Claims about main, under Spec                                           *)
(***************************************************************************)
\* the declared grammar of tokens
GrammarTokens ==
  {"SPACE", "POLYANET", "BLUE_SOLOON", "RED_SOLOON", "PURPLE_SOLOON",
   "WHITE_SOLOON", "UP_COMETH", "DOWN_COMETH", "LEFT_COMETH", "RIGHT_COMETH"}

BadDimensions(g) == g = <<>> \/ g[1] = <<>>

HasBadToken(g) ==
  \E r \in 1..Len(g) : \E c \in 1..Len(g[r]) : g[r][c] \notin GrammarTokens

PlanErrors ==
  {"Grid dimensions must be positive integers"}
    \cup {"Unknown token: " \o t : t \in MainTokens}

ValidationErrors == PlanErrors \cup {"Concurrency must be >= 1"}

\* C10: a validation error (empty goal map or empty first row, an
\* unrecognized token at any position, a concurrency < 1) is raised before
\* any remote-creation call: no request is ever sent in a run with such an
\* input, planning does not get past a bad map, launching does not get past
\* a bad concurrency, and a plan error leaves no action list.
C10_ValidationBeforeAnyRequest ==
  /\ (Issued > 0)
     => /\ ~BadDimensions(goal) /\ ~HasBadToken(goal) /\ concurrency >= 1
        /\ fatalErr \notin ValidationErrors
  /\ (mpc = "fatal" /\ fatalErr \in ValidationErrors) => Issued = 0
  /\ (mpc = "fatal" /\ fatalErr \in PlanErrors) => actions = <<>>
  /\ (mpc \in {"planned", "returned", "launching", "awaiting", "done"})
     => (~BadDimensions(goal) /\ ~HasBadToken(goal))
  /\ (mpc \in {"launching", "awaiting", "done"}) => concurrency >= 1

\* C10 witness: the run ended on an unrecognized token that follows a valid
\* creatable cell; nothing was sent and no action list was returned
C10_Witness ==
  /\ mpc = "fatal" /\ fatalErr = "Unknown token: GREEN_SOLOON"
  /\ Len(goal) = 2 /\ Len(goal[1]) = 2
  /\ goal[1][1] = "POLYANET" /\ goal[2][2] = "GREEN_SOLOON"
  /\ actions = <<>> /\ Issued = 0

(***************************************************************************)
(* Claims about planActions and parseToken, under SpecPlan                 *)
(***************************************************************************)
\* main got past planActions
Planned == mpc \in {"planned", "returned"}

\* the cells of goal map g, as (row, column) pairs from 0
CellsOf(g) == {<<r, c>> : r \in 0..(Len(g) - 1), c \in 0..(Len(g[1]) - 1)}

TokenAt(g, rc) == g[rc[1] + 1][rc[2] + 1]

\* rc1 is at or before rc2 in row-major order
RowMajorLeq(rc1, rc2) == rc1[1] < rc2[1] \/ (rc1[1] = rc2[1] /\ rc1[2] <= rc2[2])

\* C11: planActions over a rectangular goal map of valid tokens gives
\* exactly one Action per non-SPACE cell and none for a SPACE cell, in
\* row-major order, each labelled "<KIND> @ (row,column)" with the colour or
\* direction in upper case (the token itself), and each point inside the
\* Grid of the same map; the 2x2 example gives exactly its three labels.
C11_OneActionPerCellRowMajor ==
  (Planned /\ ~HasBadToken(goal)) =>
    LET made == {rc \in CellsOf(goal) : TokenAt(goal, rc) # "SPACE"} IN
    /\ grid = [height |-> Len(goal), width |-> Len(goal[1])]
    /\ Len(actions) = Cardinality(made)
    /\ \A rc \in made :
         LET k == Cardinality({x \in made : RowMajorLeq(x, rc)}) IN
         /\ actions[k].kind = "create"
         /\ actions[k].point = [row |-> rc[1], column |-> rc[2]]
         /\ actions[k].describe = TokenAt(goal, rc) \o At(rc[1], rc[2])
         /\ InBounds(grid, actions[k].point)
    /\ (goal = PlanExample)
       => [k \in 1..Len(actions) |-> actions[k].describe]
            = <<"POLYANET @ (0,0)", "BLUE_SOLOON @ (1,0)", "RIGHT_COMETH @ (1,1)">>

\* C11 witness: the dry run planned the 2x2 example: three actions
C11_Witness ==
  /\ mpc = "returned" /\ goal = PlanExample /\ Len(actions) = 3
  /\ actions[3].describe = "RIGHT_COMETH @ (1,1)"

\* the Cell the grammar gives each of its tokens
GrammarCell(t) ==
  CASE t = "SPACE" -> [kind |-> "SPACE"]
    [] t = "POLYANET" -> [kind |-> "POLYANET"]
    [] t = "BLUE_SOLOON" -> [kind |-> "SOLOON", color |-> "blue"]
    [] t = "RED_SOLOON" -> [kind |-> "SOLOON", color |-> "red"]
    [] t = "PURPLE_SOLOON" -> [kind |-> "SOLOON", color |-> "purple"]
    [] t = "WHITE_SOLOON" -> [kind |-> "SOLOON", color |-> "white"]
    [] t = "UP_COMETH" -> [kind |-> "COMETH", direction |-> "up"]
    [] t = "DOWN_COMETH" -> [kind |-> "COMETH", direction |-> "down"]
    [] t = "LEFT_COMETH" -> [kind |-> "COMETH", direction |-> "left"]
    [] t = "RIGHT_COMETH" -> [kind |-> "COMETH", direction |-> "right"]

\* the colour or direction an Action of the plan carries to the client
ParamOf(a) ==
  CASE a.call = "createSoloon" -> [kind |-> "SOLOON", color |-> a.color]
    [] a.call = "createCometh" -> [kind |-> "COMETH", direction |-> a.direction]
    [] OTHER -> [kind |-> "POLYANET"]

\* C12: parseToken gives every token of the grammar its Cell (SPACE: Empty,
\* POLYANET, a soloon with the colour in lower case, a cometh with the
\* direction in lower case) and fails with "Unknown token" on every other
\* string; so planning fails exactly on the maps that hold such a string,
\* with the first one in row-major order, and the parameters a planned
\* Action carries are those of the grammar.
C12_ParseTokenGrammar ==
  /\ \A rc \in CellsOf(goal) :
       LET t == TokenAt(goal, rc) IN
       IF t \in GrammarTokens
         THEN ParseToken(t) = [ok |-> TRUE, cell |-> GrammarCell(t)]
         ELSE ParseToken(t) = [ok |-> FALSE, error |-> "Unknown token: " \o t]
  /\ (mpc = "fatal") => HasBadToken(goal)
  /\ Planned => ~HasBadToken(goal)
  /\ (mpc = "fatal") =>
       \E rc \in CellsOf(goal) :
         /\ TokenAt(goal, rc) \notin GrammarTokens
         /\ fatalErr = "Unknown token: " \o TokenAt(goal, rc)
         /\ \A x \in CellsOf(goal) :
              (TokenAt(goal, x) \notin GrammarTokens) => RowMajorLeq(rc, x)
  /\ Planned =>
       \A k \in 1..Len(actions) :
         ParamOf(actions[k])
           = GrammarCell(TokenAt(goal, <<actions[k].point.row, actions[k].point.column>>))

\* C12 witness: planning stopped on a lower-case token that follows a valid
\* cometh
C12_Witness ==
  /\ mpc = "fatal" /\ goal = <<<<"LEFT_COMETH", "blue_soloon">>>>
  /\ fatalErr = "Unknown token: blue_soloon"

(***************************************************************************)
(* Claims about the two scripts, under SpecScripts                         *)
(***************************************************************************)
\* C13: in a run with the dry-run flag set no remote-creation call is ever
\* issued and the batch is never started: run() is never invoked, no task is
\* called, nothing is counted, whatever the plan contains; and a run that
\* returns before the batch is a dry run whose plan was produced (the
\* actions of planActions in phase 2, the points of the shape in phase 1).
C13_DryRunSendsNothing ==
  /\ dryRun =>
       /\ Issued = 0
       /\ callOrder = <<>> /\ startOrder = <<>> /\ active = 0 /\ queue = <<>>
       /\ \A i \in DOMAIN wpc : wpc[i] = "idle" /\ lpc[i] = "idle"
       /\ mpc \notin {"launching", "awaiting", "done"}
       /\ ok = 0 /\ fail = 0
  /\ (mpc = "returned") =>
       /\ dryRun
       /\ \/ gridSize = 0 /\ actions = PlanActions(goal).actions
          \/ gridSize > 0 /\ points = XPoints(gridSize, xSize, center)

\* C13 witness: a dry run of phase 2 has returned with a plan of as many
\* actions as the goal map has cells
C13_Witness ==
  /\ mpc = "returned" /\ dryRun /\ gridSize = 0
  /\ Len(actions) = MaxCells /\ Issued = 0

\* actions whose withRetry call has begun and not ended: a request in
\* flight, its outcome being handled, or a backoff sleep
Busy == {i \in DOMAIN wpc : wpc[i] \in {"inflight", "settling", "sleeping", "waking"}}

\* actions with a create request in flight
InFlight == {i \in DOMAIN wpc : wpc[i] = "inflight"}

\* actions holding a slot of the Limiter
Holding == {i \in DOMAIN lpc : lpc[i] = "running"}

\* C15: in a batch, where every action is submitted up front as
\* limiter.run(() => withRetry(...)), the actions admitted and not yet
\* terminal never number more than the concurrency, so neither do the
\* requests in flight; an action holds its slot from its first request to
\* its terminal outcome, backoff sleeps included, and active counts exactly
\* the actions holding a slot.
C15_BatchWithinConcurrency ==
  (DOMAIN wpc # {}) =>
    /\ max = concurrency
    /\ Cardinality(Busy) <= concurrency
    /\ Cardinality(InFlight) <= concurrency
    /\ Busy \subseteq Holding
    /\ active = Cardinality(Holding)
    /\ active <= concurrency
    /\ \A i \in DOMAIN wpc :
         /\ (lpc[i] \in {"idle", "queued"}) => (wpc[i] = "idle" /\ calls[i] = 0)
         /\ (lpc[i] = "returned") => (wpc[i] \in {"returned", "thrown"})

\* C15 witness: concurrency 2 in a batch of more than two: one action sleeps
\* in backoff, another has a request in flight, a third waits in the queue
C15_Witness ==
  /\ concurrency = 2 /\ mpc = "awaiting"
  /\ \E i, j, k \in DOMAIN wpc :
       /\ wpc[i] = "sleeping" /\ lpc[i] = "running"
       /\ wpc[j] = "inflight"
       /\ lpc[k] = "queued" /\ InQueue(queue, k)

(***************************************************************************)
(* Liveness of the batch, under SpecBatchLive                              *)
(***************************************************************************)
\* action i was submitted and is waiting for a slot
Waiting(i) == i \in DOMAIN lpc /\ lpc[i] = "queued"

\* action i has reached its terminal outcome and left the Limiter
Terminal(i) ==
  i \in DOMAIN lpc /\ lpc[i] = "returned" /\ wpc[i] \in {"returned", "thrown"}

\* C16: provided every request is answered and every backoff sleep
\* elapses, every action submitted to the batch is eventually admitted and
\* eventually terminal, and main eventually gets past the join, for every
\* concurrency >= 1 and every failure pattern; and no waiter is lost: a
\* waiting action is either in the queue while some action holds a slot
\* whose finally block will wake the head, or its continuation is already
\* queued.
C16_BatchTerminates ==
  /\ [](\A i \in 1..MaxActions :
          Waiting(i) =>
            \/ InQueue(queue, i) /\ (Holding # {} \/ \E j \in DOMAIN lpc :
                                        InQueue(microtasks, Job("resume", j)))
            \/ InQueue(microtasks, Job("resume", i)))
  /\ <>(/\ mpc = "done"
        /\ DOMAIN lpc = 1..Len(actions)
        /\ \A i \in DOMAIN lpc : InQueue(startOrder, i) /\ Terminal(i))

\* C16 witness: with concurrency 1 the first action used up its retries
\* while the second waited in the queue; the second was then admitted and
\* succeeded, and main returned
C16_Witness ==
  /\ mpc = "done" /\ max = 1 /\ startOrder = <<1, 2>>
  /\ fails[1] = BatchRetries + 1 /\ sleeps[1] = BatchRetries
  /\ wpc[2] = "returned" /\ Terminal(1) /\ Terminal(2)

(***************************************************************************)
(* Claims about the shape of phase 1, under SpecPhase1                     *)
(***************************************************************************)
\* the cells of the grid on the two diagonals of the box of the given size
\* around ctr
DiagonalCells(size, boxSize, ctr) ==
  LET half == (boxSize - 1) \div 2 IN
  {[row |-> r, column |-> c] : r \in 0..(size - 1), c \in 0..(size - 1)}
    \cap {q \in [row : (ctr.row - half)..(ctr.row + half),
                  column : (ctr.column - half)..(ctr.column + half)] :
            \/ q.row - ctr.row = q.column - ctr.column
            \/ q.row - ctr.row = ctr.column - q.column}

\* main of phase 1 has computed the points
ShapeDone ==
  /\ mpc # "p1start" /\ ClientAccepts(candidateId)
  /\ Grid1Accepts(gridSize) /\ XShapeAccepts(xSize)

\* points(grid) is exactly the diagonal cells inside the grid, each once,
\* none out of bounds; 13 points for the configured shape
PointsAreDiagonals ==
  /\ ShapeDone =>
       /\ {points[k] : k \in 1..Len(points)} = DiagonalCells(gridSize, xSize, center)
       /\ Len(points) = Cardinality(DiagonalCells(gridSize, xSize, center))
       /\ \A j, k \in 1..Len(points) : (points[j] = points[k]) => j = k
       /\ \A k \in 1..Len(points) : InBounds1(gridSize, points[k])
       /\ (gridSize = 11 /\ xSize = 7 /\ center = [row |-> 5, column |-> 5])
          => Len(points) = 13
  /\ (mpc # "p1start" /\ ~ShapeDone) => (mpc = "fatal" /\ points = <<>>)

\* C20 (as claimed): points(grid) returns exactly the diagonal cells of the
\* box inside the grid, each once and none out of bounds, 13 for the
\* configured shape, so phase 1 issues at most one create request per cell.
C20_OneRequestPerCell ==
  /\ PointsAreDiagonals
  /\ \A i \in DOMAIN calls : calls[i] <= 1

\* C20 (amended): points(grid) returns exactly the diagonal cells of the
\* box inside the grid, each once and none out of bounds, 13 for the
\* configured shape, so phase 1 makes at most one limiter.run / withRetry
\* invocation per cell; that invocation sends one create request, and one
\* more for each transient failure it retries, 7 at most.
C20_OneInvocationPerCell ==
  /\ PointsAreDiagonals
  /\ (DOMAIN calls # {}) => (ShapeDone /\ DOMAIN calls = 1..Len(points))
  /\ Len(callOrder) <= Len(points)
  /\ \A j, k \in 1..Len(callOrder) : (callOrder[j] = callOrder[k]) => j = k
  /\ \A i \in DOMAIN calls :
       /\ calls[i] <= Phase1Retries + 1
       /\ calls[i] <= fails[i] + 1
       /\ (fails[i] = 0) => calls[i] <= 1

\* C20 witness: the configured run is done: 13 points, the centre among
\* them, 13 successes, one cell having needed a second request
C20_Witness ==
  /\ mpc = "done" /\ gridSize = GRID_SIZE /\ xSize = X_SIZE /\ center = CENTER
  /\ Len(points) = 13 /\ InQueue(points, CENTER)
  /\ result = [succeeded |-> 13, failed |-> 0]
  /\ \E i \in DOMAIN calls : calls[i] = 2

=============================================================================
